---- MODULE Spec2Model ----
(***************************************************************************)
(* Model of request.go of minio-go-legacy: the Signature V2 request        *)
(* builder and signer (path codec, path parser, URL builder, request       *)
(* constructors, canonicalizer, signer).                                    *)
(*                                                                         *)
(* A Go string is a sequence of bytes, modelled as a sequence of numbers   *)
(* in 0..255.  B("abc") is the byte sequence of a printable ASCII literal  *)
(* (the double quote, the backslash and the backtick have no literal).     *)
(***************************************************************************)
EXTENDS Integers, Sequences, FiniteSets, TLC

VARIABLES
    pathName,      \* argument of getURLEncodedPath
    encoded,       \* its result
    op,            \* the operation: HTTPServer, HTTPMethod, HTTPPath
    built,         \* results of the path parser and of getRequestURL for op
    pc,            \* position of the sequential caller
    config,        \* *Config shared by every request
    regions,       \* package-level map host -> region
    resourceList,  \* package-level []string of signed sub-resources
    r,             \* requests: [ReqIds -> request record or NoRequest]
    g,             \* goroutine-local state of a signing in progress
    clock,         \* time.Now()
    sent,          \* what http.RoundTripper.RoundTrip was handed, per request
    ret            \* (url, err) of the last PreSignV2

vars == <<pathName, encoded, op, built, pc, config, regions, resourceList, r, g, clock, sent, ret>>

----------------------------------------------------------------------------
(* Bytes and strings *)

AsciiChars ==
    << " ", "!", "dquote", "#", "$", "%", "&", "'", "(", ")", "*", "+", ",", "-", ".", "/",
       "0", "1", "2", "3", "4", "5", "6", "7", "8", "9", ":", ";", "<", "=", ">", "?",
       "@", "A", "B", "C", "D", "E", "F", "G", "H", "I", "J", "K", "L", "M", "N", "O",
       "P", "Q", "R", "S", "T", "U", "V", "W", "X", "Y", "Z", "[", "backslash", "]", "^", "_",
       "backtick", "a", "b", "c", "d", "e", "f", "g", "h", "i", "j", "k", "l", "m", "n", "o",
       "p", "q", "r", "s", "t", "u", "v", "w", "x", "y", "z", "{", "|", "}", "~" >>

Ord(c) == 31 + (CHOOSE i \in 1..Len(AsciiChars) : AsciiChars[i] = c)

B(s) == [i \in 1..Len(s) |-> Ord(SubSeq(s, i, i))]

Min(a, b) == IF a < b THEN a ELSE b

IsUpper(b) == 65 <= b /\ b <= 90
IsLower(b) == 97 <= b /\ b <= 122
IsDigit(b) == 48 <= b /\ b <= 57

\* strings.ToLower / ToUpper on ASCII bytes
ToLowerByte(b) == IF IsUpper(b) THEN b + 32 ELSE b
ToUpperByte(b) == IF IsLower(b) THEN b - 32 ELSE b
ToLower(s) == [i \in 1..Len(s) |-> ToLowerByte(s[i])]

HasPrefix(s, p) == Len(s) >= Len(p) /\ SubSeq(s, 1, Len(p)) = p
HasSuffix(s, p) == Len(s) >= Len(p) /\ SubSeq(s, Len(s) - Len(p) + 1, Len(s)) = p
TrimSuffix(s, p) == IF HasSuffix(s, p) THEN SubSeq(s, 1, Len(s) - Len(p)) ELSE s

\* strings.Index for a one-byte separator: first position of b in s, 0 when absent
IndexByte(s, b) ==
    IF \E i \in 1..Len(s) : s[i] = b
    THEN CHOOSE i \in 1..Len(s) : s[i] = b /\ \A j \in 1..(i - 1) : s[j] # b
    ELSE 0

\* strings.SplitN(s, sep, n) for a one-byte separator and n >= 1
RECURSIVE SplitN(_, _, _)
SplitN(s, b, n) ==
    LET i == IndexByte(s, b)
    IN  IF n <= 1 \/ i = 0
        THEN <<s>>
        ELSE <<SubSeq(s, 1, i - 1)>> \o SplitN(SubSeq(s, i + 1, Len(s)), b, n - 1)

\* byte-wise string order, as Go's < on strings (sort.Strings)
RECURSIVE StrLess(_, _)
StrLess(a, b) ==
    IF b = <<>> THEN FALSE
    ELSE IF a = <<>> THEN TRUE
    ELSE IF a[1] # b[1] THEN a[1] < b[1]
    ELSE StrLess(Tail(a), Tail(b))

RECURSIVE Concat(_)
Concat(ss) == IF ss = <<>> THEN <<>> ELSE Head(ss) \o Concat(Tail(ss))

separator == <<47>>

----------------------------------------------------------------------------
(* Path Codec: getURLEncodedPath *)

RuneError == 65533

IsCont(b) == 128 <= b /\ b <= 191

\* One iteration of "for _, s := range pathName": the rune decoded at the head of
\* s and its width in bytes.  An ill-formed sequence yields U+FFFD with width 1.
DecodeRune(s) ==
    LET b0 == s[1]
        n  == Len(s)
        bad == [rune |-> RuneError, size |-> 1]
    IN  IF b0 < 128 THEN [rune |-> b0, size |-> 1]
        ELSE IF 194 <= b0 /\ b0 <= 223 THEN
            IF n >= 2 /\ IsCont(s[2])
            THEN [rune |-> (b0 - 192) * 64 + (s[2] - 128), size |-> 2]
            ELSE bad
        ELSE IF 224 <= b0 /\ b0 <= 239 THEN
            IF /\ n >= 3
               /\ (IF b0 = 224 THEN 160 ELSE 128) <= s[2]
               /\ s[2] <= (IF b0 = 237 THEN 159 ELSE 191)
               /\ IsCont(s[3])
            THEN [rune |-> (b0 - 224) * 4096 + (s[2] - 128) * 64 + (s[3] - 128),
                  size |-> 3]
            ELSE bad
        ELSE IF 240 <= b0 /\ b0 <= 244 THEN
            IF /\ n >= 4
               /\ (IF b0 = 240 THEN 144 ELSE 128) <= s[2]
               /\ s[2] <= (IF b0 = 244 THEN 143 ELSE 191)
               /\ IsCont(s[3])
               /\ IsCont(s[4])
            THEN [rune |-> (b0 - 240) * 262144 + (s[2] - 128) * 4096
                           + (s[3] - 128) * 64 + (s[4] - 128),
                  size |-> 4]
            ELSE bad
        ELSE bad

\* utf8.RuneLen
RuneLen(c) ==
    IF c < 0 THEN -1
    ELSE IF c < 128 THEN 1
    ELSE IF c < 2048 THEN 2
    ELSE IF 55296 <= c /\ c <= 57343 THEN -1
    ELSE IF c < 65536 THEN 3
    ELSE IF c <= 1114111 THEN 4
    ELSE -1

\* utf8.EncodeRune
EncodeRune(c) ==
    IF c < 128 THEN <<c>>
    ELSE IF c < 2048 THEN <<192 + (c \div 64), 128 + (c % 64)>>
    ELSE IF c < 65536
        THEN <<224 + (c \div 4096), 128 + ((c \div 64) % 64), 128 + (c % 64)>>
    ELSE <<240 + (c \div 262144), 128 + ((c \div 4096) % 64),
           128 + ((c \div 64) % 64), 128 + (c % 64)>>

HexDigits == B("0123456789abcdef")

\* "%" + strings.ToUpper(hex.EncodeToString([]byte{b}))
PercentHex(b) ==
    <<37, ToUpperByte(HexDigits[(b \div 16) + 1]), ToUpperByte(HexDigits[(b % 16) + 1])>>

\* a codec that copies "%" as well
CopiesPercent(c) ==
    \/ IsUpper(c) \/ IsLower(c) \/ IsDigit(c)
    \/ c \in {45, 95, 46, 126, 47, 37}

\* the bytes [a-zA-Z0-9-_.~/] that the codec copies
IsUnreservedRune(c) ==
    \/ IsUpper(c) \/ IsLower(c) \/ IsDigit(c)
    \/ c \in {45, 95, 46, 126, 47}

\* regexp "^[a-zA-Z0-9-_.~/]+$"
MatchesReservedNames(s) == s # <<>> /\ \A i \in 1..Len(s) : IsUnreservedRune(s[i])

\* The loop of getURLEncodedPath over the rest of the string.  The result is
\* [ok, out]: ok is FALSE when RuneLen is negative and the function returns
\* pathName itself.
RECURSIVE EncodeLoop(_, _)
RECURSIVE EncodeOne(_, _, _)

EncodeLoop(s, acc) ==
    IF s = <<>> THEN [ok |-> TRUE, out |-> acc]
    ELSE EncodeOne(SubSeq(s, DecodeRune(s).size + 1, Len(s)), acc, DecodeRune(s).rune)

\* the body of the loop for the rune c, rest being what follows it
EncodeOne(rest, acc, c) ==
    IF IsUnreservedRune(c) THEN EncodeLoop(rest, Append(acc, c))
    ELSE IF RuneLen(c) < 0 THEN [ok |-> FALSE, out |-> acc]
    ELSE EncodeLoop(rest,
            acc \o Concat([k \in 1..RuneLen(c) |-> PercentHex(EncodeRune(c)[k])]))

EncodedOrSame(p, e) == IF e.ok THEN e.out ELSE p

getURLEncodedPath(p) ==
    IF MatchesReservedNames(p) THEN p ELSE EncodedOrSame(p, EncodeLoop(p, <<>>))

----------------------------------------------------------------------------
(* Path Parser: path2BucketAndObject, path2Bucket, path2Object, path2Query *)

QuestionMark == 63

\* a parser that takes the first component for the bucket
FirstComponentAsBucket(splits) ==
    [bucketName |-> splits[1],
     objectName |-> IF Len(splits) >= 2 THEN splits[2] ELSE <<>>]

\* the switch of path2BucketAndObject on len(splits); splits[1] here is the
\* source's splits[0]
BucketAndObject(splits) ==
    IF Len(splits) <= 1 THEN [bucketName |-> <<>>, objectName |-> <<>>]
    ELSE IF Len(splits) = 2 THEN [bucketName |-> splits[2], objectName |-> <<>>]
    ELSE [bucketName |-> splits[2], objectName |-> splits[3]]

path2BucketAndObject(path) ==
    BucketAndObject(SplitN(SplitN(path, QuestionMark, 2)[1], separator[1], 3))

path2Object(path) == path2BucketAndObject(path).objectName

path2Bucket(path) == path2BucketAndObject(path).bucketName

SecondOrEmpty(pathSplits) == IF Len(pathSplits) > 1 THEN pathSplits[2] ELSE <<>>

path2Query(path) == SecondOrEmpty(SplitN(path, QuestionMark, 2))

----------------------------------------------------------------------------
(* URL Builder: operation.getRequestURL *)

\* the three ifs of getRequestURL, url being server + separator (+ bucket)
AppendObjectAndQuery(url, objectName, queryPath) ==
    IF objectName = <<>> /\ queryPath # <<>> THEN url \o <<QuestionMark>> \o queryPath
    ELSE IF objectName # <<>> /\ queryPath = <<>> THEN url \o separator \o objectName
    ELSE IF objectName # <<>> /\ queryPath # <<>>
         THEN url \o separator \o objectName \o <<QuestionMark>> \o queryPath
    ELSE url

\* a builder that appends the object name as it is
UnencodedRequestURL(o, cfg) ==
    AppendObjectAndQuery(
        o.HTTPServer \o separator
          \o (IF ~cfg.isVirtualStyle THEN path2Bucket(o.HTTPPath) ELSE <<>>),
        path2Object(o.HTTPPath),
        path2Query(o.HTTPPath))

getRequestURL(o, cfg) ==
    AppendObjectAndQuery(
        o.HTTPServer \o separator
          \o (IF ~cfg.isVirtualStyle THEN path2Bucket(o.HTTPPath) ELSE <<>>),
        getURLEncodedPath(path2Object(o.HTTPPath)),
        path2Query(o.HTTPPath))

----------------------------------------------------------------------------
(* The parts of net/url, net/textproto and sort that request.go calls *)

IsHex(b) == IsDigit(b) \/ (65 <= b /\ b <= 70) \/ (97 <= b /\ b <= 102)

UnHex(b) == IF IsDigit(b) THEN b - 48 ELSE IF b >= 97 THEN b - 87 ELSE b - 55

\* url.unescape: [ok, out]; plusIsSpace is TRUE for url.QueryUnescape.  ok is
\* FALSE (an EscapeError) when a "%" is not followed by two hex digits.
RECURSIVE Unescape(_, _, _)
Unescape(s, plusIsSpace, acc) ==
    IF s = <<>> THEN [ok |-> TRUE, out |-> acc]
    ELSE IF s[1] = 37 THEN
        IF Len(s) >= 3 /\ IsHex(s[2]) /\ IsHex(s[3])
        THEN Unescape(SubSeq(s, 4, Len(s)), plusIsSpace,
                      Append(acc, 16 * UnHex(s[2]) + UnHex(s[3])))
        ELSE [ok |-> FALSE, out |-> acc]
    ELSE IF s[1] = 43 /\ plusIsSpace
        THEN Unescape(Tail(s), plusIsSpace, Append(acc, 32))
    ELSE Unescape(Tail(s), plusIsSpace, Append(acc, s[1]))

\* url.shouldEscape: the bytes "-_.~" and the alphanumerics are never escaped;
\* in a path "$&+,/:;=@" are kept too; everything else is escaped.
ShouldEscape(b, inPath) ==
    IF IsUpper(b) \/ IsLower(b) \/ IsDigit(b) \/ b \in {45, 95, 46, 126} THEN FALSE
    ELSE IF b \in {36, 38, 43, 44, 47, 58, 59, 61, 64} THEN ~inPath
    ELSE TRUE

UpperHexDigits == B("0123456789ABCDEF")

\* url.escape
RECURSIVE UrlEscape(_, _)
UrlEscape(s, inPath) ==
    IF s = <<>> THEN <<>>
    ELSE (IF ShouldEscape(s[1], inPath)
          THEN IF s[1] = 32 /\ ~inPath THEN <<43>>
               ELSE <<37, UpperHexDigits[(s[1] \div 16) + 1], UpperHexDigits[(s[1] % 16) + 1]>>
          ELSE <<s[1]>>)
         \o UrlEscape(Tail(s), inPath)

QueryEscape(s) == UrlEscape(s, FALSE)

\* the part of s before the first byte b (all of s when b is absent) and the
\* part after it (empty when b is absent)
Before(s, b) == IF IndexByte(s, b) = 0 THEN s ELSE SubSeq(s, 1, IndexByte(s, b) - 1)

After(s, b) == IF IndexByte(s, b) = 0 THEN <<>> ELSE SubSeq(s, IndexByte(s, b) + 1, Len(s))

\* url.Parse, the host of "//host/path": up to the first "/"
HostOf(rest) == IF HasPrefix(rest, <<47, 47>>) THEN Before(SubSeq(rest, 3, Len(rest)), 47) ELSE <<>>

\* url.Parse, the path of "//host/path": from the first "/" on
RawPathOf(rest) ==
    IF ~HasPrefix(rest, <<47, 47>>) THEN rest
    ELSE IF IndexByte(SubSeq(rest, 3, Len(rest)), 47) = 0 THEN <<>>
    ELSE separator \o After(SubSeq(rest, 3, Len(rest)), 47)

URLRecord(hasScheme, scheme, host, rawPath, un, rawQuery) ==
    [err      |-> ~hasScheme \/ ~un.ok \/ (\E i \in 1..Len(host) : host[i] = 32),
     Scheme   |-> ToLower(scheme),
     Host     |-> host,
     Path     |-> un.out,
     RawPath  |-> rawPath,
     RawQuery |-> rawQuery]

ParseAfterScheme(hasScheme, scheme, rest, rawQuery) ==
    URLRecord(hasScheme, scheme, HostOf(rest), RawPathOf(rest),
              Unescape(RawPathOf(rest), FALSE, <<>>), rawQuery)

ParseNoFragment(u) ==
    ParseAfterScheme(IndexByte(u, 58) # 0, Before(u, 58),
                     Before(After(u, 58), 63), After(After(u, 58), 63))

\* url.Parse of an absolute URL scheme://host/path?query (no userinfo, no port
\* check): the fragment is cut first, then the query, then the authority; Path is
\* the unescaped path and RawPath the path as written.
ParseURL(u) == ParseNoFragment(Before(u, 35))

\* url.validEncoded for a path
ValidEncodedPath(s) ==
    \A i \in 1..Len(s) :
        \/ s[i] \in {33, 36, 38, 39, 40, 41, 42, 43, 44, 59, 61, 58, 64, 91, 93, 37}
        \/ ~ShouldEscape(s[i], TRUE)

\* URL.EscapedPath
EscapedPath(u) ==
    IF u.RawPath # <<>> /\ ValidEncodedPath(u.RawPath) THEN u.RawPath
    ELSE UrlEscape(u.Path, TRUE)

\* URL.String
URLString(u) ==
    u.Scheme \o <<58, 47, 47>> \o u.Host \o EscapedPath(u)
      \o (IF u.RawQuery # <<>> THEN <<63>> \o u.RawQuery ELSE <<>>)

\* sort.Strings: insertion of x into the sorted sequence s
RECURSIVE InsertSorted(_, _)
InsertSorted(s, x) ==
    IF s = <<>> THEN <<x>>
    ELSE IF StrLess(x, s[1]) THEN <<x>> \o s
    ELSE <<s[1]>> \o InsertSorted(Tail(s), x)

RECURSIVE SortStrings(_)
SortStrings(s) ==
    IF s = <<>> THEN <<>>
    ELSE InsertSorted(SortStrings(SubSeq(s, 1, Len(s) - 1)), s[Len(s)])

\* the keys of a map, in ascending order
LeastOf(S) == CHOOSE x \in S : \A y \in S : ~StrLess(y, x)

RECURSIVE SortedKeys(_)
SortedKeys(S) ==
    IF S = {} THEN <<>> ELSE <<LeastOf(S)>> \o SortedKeys(S \ {LeastOf(S)})

\* url.ParseQuery: pairs are separated by "&"; a pair holding ";" or a bad escape
\* is dropped (the error is ignored by both callers); the values of a repeated
\* key are kept in order.
\* m[key] = append(m[key], value)
ValuesAdd(m, k, v) ==
    [x \in DOMAIN m \cup {k} |->
        IF x = k THEN (IF x \in DOMAIN m THEN m[x] ELSE <<>>) \o <<v>> ELSE m[x]]

\* one pair of the query: kv is the pair, k and v its unescaped key and value
AddPair(m, kv, k, v) ==
    IF kv = <<>> \/ IndexByte(kv, 59) # 0 \/ ~k.ok \/ ~v.ok THEN m
    ELSE ValuesAdd(m, k.out, v.out)

RECURSIVE ParsePairs(_, _)
ParsePairs(pairs, m) ==
    IF pairs = <<>> THEN m
    ELSE ParsePairs(Tail(pairs),
            AddPair(m, Head(pairs),
                    Unescape(Before(Head(pairs), 61), TRUE, <<>>),
                    Unescape(After(Head(pairs), 61), TRUE, <<>>)))

EmptyMap == [x \in {} |-> <<>>]

ParseQuery(q) == ParsePairs(SplitN(q, 38, Len(q) + 1), EmptyMap)

\* url.Values.Set
ValuesSet(m, k, v) == [x \in DOMAIN m \cup {k} |-> IF x = k THEN <<v>> ELSE m[x]]

\* the pairs key=value of one key
EncodeKey(k, vs) == [i \in 1..Len(vs) |-> QueryEscape(k) \o <<61>> \o QueryEscape(vs[i])]

JoinAmp(ps) == Concat([i \in 1..Len(ps) |-> IF i > 1 THEN <<38>> \o ps[i] ELSE ps[i]])

EncodeKeys(m, keys) == JoinAmp(Concat([i \in 1..Len(keys) |-> EncodeKey(keys[i], m[keys[i]])]))

\* url.Values.Encode: keys ascending, each value as key=value, joined by "&"
ValuesEncode(m) == EncodeKeys(m, SortedKeys(DOMAIN m))

\* textproto.validHeaderFieldByte: the token characters of RFC 7230
ValidHeaderFieldByte(b) ==
    \/ IsUpper(b) \/ IsLower(b) \/ IsDigit(b)
    \/ b \in {33, 35, 36, 37, 38, 39, 42, 43, 45, 46, 94, 95, 96, 124, 126}

\* textproto.CanonicalMIMEHeaderKey: a key with a byte that is no token character
\* is returned as it is; otherwise the first letter and every letter after "-"
\* is upper-cased and the others are lower-cased.
CanonicalMIMEHeaderKey(k) ==
    IF \E i \in 1..Len(k) : ~ValidHeaderFieldByte(k[i]) THEN k
    ELSE [i \in 1..Len(k) |->
            IF i = 1 \/ k[i - 1] = 45 THEN ToUpperByte(k[i]) ELSE ToLowerByte(k[i])]

\* http.Header.Set and http.Header.Get
HeaderSet(h, key, value) == ValuesSet(h, CanonicalMIMEHeaderKey(key), value)

FirstValue(h, k) == IF k \in DOMAIN h /\ h[k] # <<>> THEN h[k][1] ELSE <<>>

HeaderGet(h, key) == FirstValue(h, CanonicalMIMEHeaderKey(key))

----------------------------------------------------------------------------
(* Request Assembler: newPresignedRequest, newUnauthenticatedRequest, newRequest *)

ReqIds == {1, 2}

KeyUserAgent == B("User-Agent")
KeyAccept == B("Accept")
KeyContentMD5 == B("Content-MD5")
KeyContentType == B("Content-Type")
KeyDate == B("Date")
AuthKey == B("Authorization")
MethodPOST == B("POST")

EmptyURL == [err |-> FALSE, Scheme |-> <<>>, Host |-> <<>>, Path |-> <<>>,
             RawPath |-> <<>>, RawQuery |-> <<>>]

\* kind "none": no request has been constructed
NoRequest == [kind |-> "none", Method |-> <<>>, URL |-> EmptyURL, Header |-> EmptyMap,
              reqBody |-> "nil", body |-> "nil", expires |-> 0]

\* req.Header.Set("User-Agent", ...) and, for a non-empty AcceptType, "Accept"
DefaultHeaders(cfg) ==
    IF cfg.AcceptType # <<>>
    THEN HeaderSet(HeaderSet(EmptyMap, KeyUserAgent, cfg.userAgent), KeyAccept, cfg.AcceptType)
    ELSE HeaderSet(EmptyMap, KeyUserAgent, cfg.userAgent)

\* the request the constructor returns; u is the parsed URL, and an error of
\* http.NewRequest makes the constructor return (nil, err)
RequestOf(kind, o, u, h, reqBody, body, expires) ==
    IF u.err THEN NoRequest
    ELSE [kind |-> kind,
          Method |-> IF o.HTTPMethod = <<>> THEN MethodPOST ELSE o.HTTPMethod,
          URL |-> u, Header |-> h, reqBody |-> reqBody, body |-> body,
          expires |-> expires]

newPresignedRequest(o, cfg, expires) ==
    RequestOf("presigned", o, ParseURL(getRequestURL(o, cfg)), DefaultHeaders(cfg),
              "nil", "nil", expires)

newUnauthenticatedRequest(o, cfg, body) ==
    RequestOf("unauthenticated", o, ParseURL(getRequestURL(o, cfg)), DefaultHeaders(cfg),
              body, "nil", 0)

newRequest(o, cfg, body) ==
    RequestOf("authenticated", o, ParseURL(getRequestURL(o, cfg)), DefaultHeaders(cfg),
              body, body, 0)

----------------------------------------------------------------------------
(* Canonicalizer: getStringToSign and its three writers.  buf is kept as the
   record of what each writer wrote; buf.String() is their concatenation. *)

NL == <<10>>

AmzPrefix == B("x-amz")

writeDefaultHeaders(req) ==
    req.Method \o NL
      \o HeaderGet(req.Header, KeyContentMD5) \o NL
      \o HeaderGet(req.Header, KeyContentType) \o NL
      \o HeaderGet(req.Header, KeyDate) \o NL

IsAmzKey(k) == HasPrefix(ToLower(k), AmzPrefix)

\* every order in which "range" may visit the keys S of a map
RECURSIVE RangeOrders(_)
RangeOrders(S) ==
    IF S = {} THEN {<<>>}
    ELSE UNION {{<<x>> \o t : t \in RangeOrders(S \ {x})} : x \in S}

\* the header keys the first loop of writeCanonicalizedAmzHeaders does not skip
AmzKeysOf(req) == {x \in DOMAIN req.Header : IsAmzKey(x)}

\* amzHeaders = append(amzHeaders, lk); vals[lk] = vv
AmzAdd(acc, lk, vv) ==
    [names |-> Append(acc.names, lk),
     vals  |-> [x \in DOMAIN acc.vals \cup {lk} |-> IF x = lk THEN vv ELSE acc.vals[x]]]

\* the first loop of writeCanonicalizedAmzHeaders, over the keys in visiting
\* order
RECURSIVE CollectAmz(_, _, _)
CollectAmz(h, order, acc) ==
    IF order = <<>> THEN acc
    ELSE IF IsAmzKey(Head(order))
         THEN CollectAmz(h, Tail(order), AmzAdd(acc, ToLower(Head(order)), h[Head(order)]))
         ELSE CollectAmz(h, Tail(order), acc)

JoinComma(vv) ==
    Concat([i \in 1..Len(vv) |-> IF i > 1 THEN <<44>> \o vv[i] ELSE vv[i]])

\* the second loop, over the sorted names
EmitAmz(amzHeaders, vals) ==
    Concat([i \in 1..Len(amzHeaders) |->
              amzHeaders[i] \o <<58>> \o JoinComma(vals[amzHeaders[i]]) \o NL])

EmitCollected(c) == EmitAmz(SortStrings(c.names), c.vals)

\* order: the order in which the range visits the x-amz keys of the header map
\* (the keys it skips leave no trace)
writeCanonicalizedAmzHeaders(req, order) ==
    EmitCollected(CollectAmz(req.Header, order, [names |-> <<>>, vals |-> EmptyMap]))

\* "no key of regions has the configured region"
NoHost == <<0>>

HostsOfRegion(cfg, table) == {k \in DOMAIN table : table[k] = cfg.Region}

\* the keys the loop over regions may stop at: any key whose value is the
\* configured region, the visiting order of a map being unspecified
MatchingHosts(cfg, table) ==
    IF HostsOfRegion(cfg, table) = {} THEN {NoHost} ELSE HostsOfRegion(cfg, table)

\* the path part of writeCanonicalizedResource; k is the key the loop stopped at
CanonicalPath(req, cfg, k) ==
    IF cfg.isVirtualStyle
    THEN IF k = NoHost THEN <<>>
         ELSE getURLEncodedPath(
                 separator \o TrimSuffix(req.URL.Host, <<46>> \o k) \o req.URL.Path)
    ELSE getURLEncodedPath(req.URL.Path)

\* one iteration of the loop over resourceList: n and the bytes written
ResourceEntry(vals, resource, n) ==
    IF resource \in DOMAIN vals /\ Len(vals[resource]) > 0
    THEN [n   |-> n + 1,
          out |-> (IF n + 1 = 1 THEN <<63>> ELSE <<38>>) \o resource
                    \o (IF Len(vals[resource][1]) > 0
                        THEN <<61>> \o QueryEscape(vals[resource][1]) ELSE <<>>)]
    ELSE [n |-> n, out |-> <<>>]

RECURSIVE ResourceLoop(_, _, _)
RECURSIVE ResourceNext(_, _, _)

ResourceLoop(vals, list, n) ==
    IF list = <<>> THEN <<>>
    ELSE ResourceNext(vals, Tail(list), ResourceEntry(vals, Head(list), n))

ResourceNext(vals, rest, e) == e.out \o ResourceLoop(vals, rest, e.n)

\* the query part of writeCanonicalizedResource, over the list as sorted
CanonicalQuery(req, list) ==
    IF req.URL.RawQuery # <<>> THEN ResourceLoop(ParseQuery(req.URL.RawQuery), list, 0)
    ELSE <<>>

getStringToSign(req, cfg, order, k, list) ==
    [head  |-> writeDefaultHeaders(req),
     amz   |-> writeCanonicalizedAmzHeaders(req, order),
     path  |-> CanonicalPath(req, cfg, k),
     query |-> CanonicalQuery(req, list)]

\* buf.String()
BufString(buf) == buf.head \o buf.amz \o buf.path \o buf.query

NoBuf == [head |-> <<>>, amz |-> <<>>, path |-> <<>>, query |-> <<>>]

----------------------------------------------------------------------------
(* Signer *)

HmacOpen == B("hmac-sha1(")
HmacClose == B(")")
AwsSpace == B("AWS ")
KeyAWSAccessKeyId == B("AWSAccessKeyId")
KeyExpires == B("Expires")
KeySignature == B("Signature")
DatePrefix == B("Tue, 27 Mar 2007 19:36:")
DateSuffix == B(" GMT")

\* base64(HMAC-SHA1(key, text)).  The digest is not computed: it is abstracted
\* by an injective image of (key, text), so two signatures are equal exactly
\* when key and text are.
Base64HmacSha1(key, text) == HmacOpen \o key \o <<0>> \o text \o HmacClose

RECURSIVE FormatInt(_)
FormatInt(n) == IF n < 10 THEN <<48 + n>> ELSE FormatInt(n \div 10) \o <<48 + (n % 10)>>

\* time.Now().UTC().Format(http.TimeFormat) with the clock t seconds after the minute
TimeFormat(t) ==
    DatePrefix \o (IF t < 10 THEN <<48>> ELSE <<>>) \o FormatInt(t) \o DateSuffix

\* "Add date if not present"
EnsureDate(h, t) ==
    IF HeaderGet(h, KeyDate) = <<>> THEN HeaderSet(h, KeyDate, TimeFormat(t)) ELSE h

Dated(req, t) == [req EXCEPT !.Header = EnsureDate(req.Header, t)]

\* the value SignV2 gives the Authorization header
AuthorizationValue(cfg, stringToSign) ==
    AwsSpace \o cfg.AccessKeyID \o <<58>>
      \o Base64HmacSha1(cfg.SecretAccessKey, stringToSign)

\* r.req.Header.Set("Authorization", authHeader.String())
WithAuthorization(req, cfg, stringToSign) ==
    [req EXCEPT !.Header = HeaderSet(req.Header, AuthKey,
                                     AuthorizationValue(cfg, stringToSign))]

\* a check of the access key ID alone
MissingAccessKey(cfg) == cfg.AccessKeyID = <<>>

MissingCredentials(cfg) == cfg.AccessKeyID = <<>> \/ cfg.SecretAccessKey = <<>>

PresignError == "presign requires accesskey and secretkey"

\* signText of PreSignV2
PresignText(req, epochExpires) ==
    req.Method \o NL \o NL \o NL \o FormatInt(epochExpires) \o NL \o req.URL.Path

\* the query PreSignV2 gives the URL
PresignQuery(req, cfg, epochExpires) ==
    ValuesEncode(
        ValuesSet(
            ValuesSet(
                ValuesSet(ParseQuery(req.URL.RawQuery), KeyAWSAccessKeyId, cfg.AccessKeyID),
                KeyExpires, FormatInt(epochExpires)),
            KeySignature,
            Base64HmacSha1(cfg.SecretAccessKey, PresignText(req, epochExpires))))

\* the request after PreSignV2 past the credentials check
PreSigned(req, cfg, t) ==
    [req EXCEPT !.Header = EnsureDate(req.Header, t),
                !.URL.RawQuery = PresignQuery(req, cfg, t + req.expires)]

----------------------------------------------------------------------------
(* Package-level state and its initial values *)

\* var resourceList, in the order the source lists it
ResourceListSource ==
    << B("acl"), B("location"), B("logging"), B("notification"), B("partNumber"),
       B("policy"), B("response-content-type"), B("response-content-language"),
       B("response-expires"), B("response-cache-control"),
       B("response-content-disposition"), B("response-content-encoding"),
       B("requestPayment"), B("torrent"), B("uploadId"), B("uploads"),
       B("versionId"), B("versioning"), B("versions"), B("website") >>

\* var regions (declared outside request.go): host -> region
RegionTable ==
    (B("s3.amazonaws.com") :> B("us-east-1"))
      @@ (B("s3-eu-west-1.amazonaws.com") :> B("eu-west-1"))

\* a table in which two hosts serve one region
RegionTableShared ==
    RegionTable @@ (B("s3-external-1.amazonaws.com") :> B("us-east-1"))

DefaultConfig ==
    [AccessKeyID |-> B("AK"), SecretAccessKey |-> B("SK"), Region |-> B("us-east-1"),
     isVirtualStyle |-> FALSE, userAgent |-> B("minio-go"), AcceptType |-> <<>>]

DefaultOp == [HTTPServer |-> <<>>, HTTPMethod |-> <<>>, HTTPPath |-> <<>>]

NoBuilt == [bucket |-> <<>>, object |-> <<>>, query |-> <<>>, url |-> <<>>]

\* a goroutine that has not called anything yet: the last call made, the
\* indices of the sort and of the loop over resourceList, and buf
GInit == [pc |-> "none", i |-> 0, j |-> 0, idx |-> 0, n |-> 0, buf |-> NoBuf]

NoRet == [url |-> <<>>, err |-> ""]

----------------------------------------------------------------------------
(* Actions: one per function of request.go, for the request p *)

OnlyRequest ==
    UNCHANGED <<pathName, encoded, built, pc, config, regions, clock>>

Constructed(p, o, req) ==
    /\ r' = [r EXCEPT ![p] = req]
    /\ g' = [g EXCEPT ![p].pc = IF req.kind = "none" THEN "failed" ELSE "built"]
    /\ op' = o
    /\ UNCHANGED <<resourceList, sent, ret>>
    /\ OnlyRequest

\* newPresignedRequest(op, config, expires)
ConstructPresigned(p, o, expires) ==
    /\ r[p].kind = "none" /\ g[p].pc = "none"
    /\ Constructed(p, o, newPresignedRequest(o, config, expires))

\* newUnauthenticatedRequest(op, config, body)
ConstructUnauthenticated(p, o, body) ==
    /\ r[p].kind = "none" /\ g[p].pc = "none"
    /\ Constructed(p, o, newUnauthenticatedRequest(o, config, body))

\* newRequest(op, config, body)
ConstructAuthenticated(p, o, body) ==
    /\ r[p].kind = "none" /\ g[p].pc = "none"
    /\ Constructed(p, o, newRequest(o, config, body))

\* the request exists and has not been handed to the transport
Live(p) == r[p].kind # "none" /\ g[p].pc \notin {"none", "failed", "sent"}

\* request.Set(key, value)
Set(p, key, value) ==
    /\ Live(p)
    /\ r' = [r EXCEPT ![p].Header = HeaderSet(r[p].Header, key, value)]
    /\ g' = [g EXCEPT ![p].pc = "Set"]
    /\ UNCHANGED <<op, resourceList, sent, ret>>
    /\ OnlyRequest

\* the writes of SignV2: the Authorization header of its own request, the
\* goroutine's buf, and resourceList, left as sort.Strings left it
SignV2Store(p, lastCall, list, dated, buf) ==
    /\ r' = [r EXCEPT ![p] = WithAuthorization(dated, config, BufString(buf))]
    /\ resourceList' = list
    /\ g' = [g EXCEPT ![p] = [GInit EXCEPT !.pc = lastCall, !.buf = buf]]

SignV2Sorted(p, lastCall, list, dated, order, k) ==
    SignV2Store(p, lastCall, list, dated, getStringToSign(dated, config, order, k, list))

\* a SignV2 that walks resourceList as it finds it, without sorting it
SignV2Unsorted(p, order, k, lastCall) ==
    SignV2Sorted(p, lastCall, resourceList, Dated(r[p], clock), order, k)

\* What SignV2 does, the range over the header map having visited the x-amz
\* keys in order and the range over regions having stopped at k.
\* writeCanonicalizedResource sorts resourceList in place on every call.
SignV2Effect(p, order, k, lastCall) ==
    SignV2Sorted(p, lastCall, SortStrings(resourceList), Dated(r[p], clock), order, k)

\* request.SignV2(), run to completion
SignV2(p) ==
    /\ Live(p)
    /\ \E order \in RangeOrders(AmzKeysOf(r[p])), k \in MatchingHosts(config, regions) :
            SignV2Effect(p, order, k, "SignV2")
    /\ UNCHANGED <<op, sent, ret>>
    /\ OnlyRequest

\* request.Do(): sign when both keys are set, then hand r.req to the transport
Do(p) ==
    /\ Live(p)
    /\ IF config.AccessKeyID # <<>> /\ config.SecretAccessKey # <<>>
       THEN \E order \in RangeOrders(AmzKeysOf(r[p])), k \in MatchingHosts(config, regions) :
                 SignV2Effect(p, order, k, "sent")
       ELSE /\ g' = [g EXCEPT ![p].pc = "sent"]
            /\ UNCHANGED <<r, resourceList>>
    /\ sent' = [sent EXCEPT ![p] = r'[p]]
    /\ UNCHANGED <<op, ret>>
    /\ OnlyRequest

\* request.PreSignV2()
PreSignV2(p) ==
    /\ Live(p)
    /\ IF MissingCredentials(config)
       THEN /\ ret' = [url |-> <<>>, err |-> PresignError]
            /\ UNCHANGED r
       ELSE /\ r' = [r EXCEPT ![p] = PreSigned(r[p], config, clock)]
            /\ ret' = [url |-> URLString(r'[p].URL), err |-> ""]
    /\ g' = [g EXCEPT ![p].pc = "PreSignV2"]
    /\ UNCHANGED <<op, resourceList, sent>>
    /\ OnlyRequest

----------------------------------------------------------------------------
(* SignV2 step by step, for goroutines that sign at the same time.  Between
   two steps of one goroutine the other may take any number of its own.
   sort.Strings is modelled as the insertion sort of package sort, one
   comparison and exchange of neighbours per step; the library's other phases
   differ in which pairs they exchange, not in exchanging them in place. *)

SignBeginStore(p, dated, order, k) ==
    /\ r' = [r EXCEPT ![p] = dated]
    /\ g' = [g EXCEPT ![p] =
                [pc |-> "sort", i |-> 2, j |-> 2, idx |-> 1, n |-> 0,
                 buf |-> [head  |-> writeDefaultHeaders(dated),
                          amz   |-> writeCanonicalizedAmzHeaders(dated, order),
                          path  |-> CanonicalPath(dated, config, k),
                          query |-> <<>>]]]

\* SignV2 from its entry to the call of sort.Strings: the Date header, the
\* default headers, the x-amz headers and the path part of the resource
SignBegin(p) ==
    /\ g[p].pc = "built"
    /\ \E order \in RangeOrders(AmzKeysOf(r[p])), k \in MatchingHosts(config, regions) :
            SignBeginStore(p, Dated(r[p], clock), order, k)
    /\ UNCHANGED <<op, resourceList, sent, ret>>
    /\ OnlyRequest

Swapped(list, a, b) == [list EXCEPT ![a] = list[b], ![b] = list[a]]

\* one step of sort.Strings(resourceList): element i is being inserted and
\* stands at j
SortStep(p) ==
    /\ g[p].pc = "sort"
    /\ IF g[p].i > Len(resourceList)
       THEN /\ g' = [g EXCEPT ![p].pc =
                        IF r[p].URL.RawQuery # <<>> THEN "loop" ELSE "auth"]
            /\ UNCHANGED resourceList
       ELSE IF g[p].j > 1 /\ StrLess(resourceList[g[p].j], resourceList[g[p].j - 1])
            THEN /\ resourceList' = Swapped(resourceList, g[p].j, g[p].j - 1)
                 /\ g' = [g EXCEPT ![p].j = g[p].j - 1]
            ELSE /\ g' = [g EXCEPT ![p].i = g[p].i + 1, ![p].j = g[p].i + 1]
                 /\ UNCHANGED resourceList
    /\ UNCHANGED <<op, r, sent, ret>>
    /\ OnlyRequest

LoopStore(p, e) ==
    g' = [g EXCEPT ![p].idx = g[p].idx + 1, ![p].n = e.n,
                   ![p].buf.query = g[p].buf.query \o e.out]

\* one iteration of the loop over resourceList
LoopStep(p) ==
    /\ g[p].pc = "loop"
    /\ IF g[p].idx > Len(resourceList)
       THEN g' = [g EXCEPT ![p].pc = "auth"]
       ELSE LoopStore(p, ResourceEntry(ParseQuery(r[p].URL.RawQuery),
                                       resourceList[g[p].idx], g[p].n))
    /\ UNCHANGED <<op, r, resourceList, sent, ret>>
    /\ OnlyRequest

\* SignV2 after getStringToSign: the Authorization header
SignEnd(p) ==
    /\ g[p].pc = "auth"
    /\ r' = [r EXCEPT ![p] = WithAuthorization(r[p], config, BufString(g[p].buf))]
    /\ g' = [g EXCEPT ![p].pc = "SignV2"]
    /\ UNCHANGED <<op, resourceList, sent, ret>>
    /\ OnlyRequest

----------------------------------------------------------------------------
(* Specification of the Path Codec: getURLEncodedPath on every byte string of
   at most MaxPathLen bytes over PathBytes *)

MaxPathLen == 3

\* "a" "4" "/" "~" "%" " " and the bytes of U+00E9 (C3 A9) and U+20AC (E2 82 AC)
PathBytes == {97, 52, 47, 126, 37, 32, 195, 169, 226, 130, 172}

SeqsUpTo(A, n) == UNION {[1..k -> A] : k \in 0..n}

Idle ==
    /\ op = DefaultOp
    /\ built = NoBuilt
    /\ config = DefaultConfig
    /\ regions = RegionTable
    /\ resourceList = ResourceListSource
    /\ r = [p \in ReqIds |-> NoRequest]
    /\ g = [p \in ReqIds |-> GInit]
    /\ clock = 0
    /\ sent = [p \in ReqIds |-> NoRequest]
    /\ ret = NoRet

InitCodec ==
    /\ pathName \in SeqsUpTo(PathBytes, MaxPathLen)
    /\ encoded = <<>>
    /\ pc = "input"
    /\ Idle

EncodePath ==
    /\ pc = "input"
    /\ encoded' = getURLEncodedPath(pathName)
    /\ pc' = "encoded"
    /\ UNCHANGED <<pathName, op, built, config, regions, resourceList, r, g, clock, sent, ret>>

NextCodec == EncodePath

SpecCodec == InitCodec /\ [][NextCodec]_vars

\* percent-decoding, as a reader of the URL does it: "%XY" is one byte
RECURSIVE PercentDecode(_)
PercentDecode(s) ==
    IF s = <<>> THEN <<>>
    ELSE IF s[1] = 37 /\ Len(s) >= 3 /\ IsHex(s[2]) /\ IsHex(s[3])
         THEN <<16 * UnHex(s[2]) + UnHex(s[3])>> \o PercentDecode(SubSeq(s, 4, Len(s)))
         ELSE <<s[1]>> \o PercentDecode(Tail(s))

IsUpperHex(b) == IsDigit(b) \/ (65 <= b /\ b <= 70)

\* every "%" is followed by two uppercase hex digits and every other byte is unreserved
EscapesWellFormed(s) ==
    \A i \in 1..Len(s) :
        IF s[i] = 37 THEN i + 2 <= Len(s) /\ IsUpperHex(s[i + 1]) /\ IsUpperHex(s[i + 2])
        ELSE s[i] \in {45, 95, 46, 126, 47} \/ IsUpper(s[i]) \/ IsLower(s[i]) \/ IsDigit(s[i])

\* s is well-formed UTF-8 (RFC 3629)
RECURSIVE WellFormedUTF8(_)
WellFormedUTF8(s) ==
    IF s = <<>> THEN TRUE
    ELSE IF s[1] < 128 THEN WellFormedUTF8(Tail(s))
    ELSE IF 194 <= s[1] /\ s[1] <= 223
         THEN Len(s) >= 2 /\ IsCont(s[2]) /\ WellFormedUTF8(SubSeq(s, 3, Len(s)))
    ELSE IF 224 <= s[1] /\ s[1] <= 239
         THEN /\ Len(s) >= 3 /\ IsCont(s[2]) /\ IsCont(s[3])
              /\ (s[1] = 224 => s[2] >= 160)
              /\ (s[1] = 237 => s[2] <= 159)
              /\ WellFormedUTF8(SubSeq(s, 4, Len(s)))
    ELSE IF 240 <= s[1] /\ s[1] <= 244
         THEN /\ Len(s) >= 4 /\ IsCont(s[2]) /\ IsCont(s[3]) /\ IsCont(s[4])
              /\ (s[1] = 240 => s[2] >= 144)
              /\ (s[1] = 244 => s[2] <= 143)
              /\ WellFormedUTF8(SubSeq(s, 5, Len(s)))
    ELSE FALSE

HasReservedByte(s) ==
    \E i \in 1..Len(s) :
        ~(s[i] \in {45, 95, 46, 126, 47} \/ IsUpper(s[i]) \/ IsLower(s[i]) \/ IsDigit(s[i]))

WellFormedPrefix(s) ==
    IF s[1] < 128 THEN 1
    ELSE IF 194 <= s[1] /\ s[1] <= 223 /\ Len(s) >= 2 /\ IsCont(s[2]) THEN 2
    ELSE IF /\ 224 <= s[1] /\ s[1] <= 239 /\ Len(s) >= 3 /\ IsCont(s[2]) /\ IsCont(s[3])
            /\ (s[1] = 224 => s[2] >= 160) /\ (s[1] = 237 => s[2] <= 159) THEN 3
    ELSE IF /\ 240 <= s[1] /\ s[1] <= 244 /\ Len(s) >= 4
            /\ IsCont(s[2]) /\ IsCont(s[3]) /\ IsCont(s[4])
            /\ (s[1] = 240 => s[2] >= 144) /\ (s[1] = 244 => s[2] <= 143) THEN 4
    ELSE 0

\* s with every byte that starts no well-formed sequence replaced by the three
\* bytes of U+FFFD
RECURSIVE ReplaceIllFormed(_)
ReplaceIllFormed(s) ==
    IF s = <<>> THEN <<>>
    ELSE IF WellFormedPrefix(s) = 0 THEN <<239, 191, 189>> \o ReplaceIllFormed(Tail(s))
    ELSE SubSeq(s, 1, WellFormedPrefix(s))
           \o ReplaceIllFormed(SubSeq(s, WellFormedPrefix(s) + 1, Len(s)))

----------------------------------------------------------------------------
(* Specification of the Path Parser and the URL Builder: every HTTPPath of at
   most MaxOpPathLen bytes over OpPathBytes, and the paths the documentation
   names, under both addressing styles *)

MaxOpPathLen == 4

\* "b" "o" "/" "?" " "
OpPathBytes == {98, 111, 47, 63, 32}

NamedPaths ==
    { B("bucket/obj?x=1"), B("/bucket/obj?x=1"), B("bucket"), B("/bucket"),
      B("mybucket/my object.txt"), B("/mybucket/my object.txt") }

ExampleServer == B("http://s3.example.com")

InitURL ==
    /\ op \in [HTTPServer : {ExampleServer}, HTTPMethod : {B("GET")},
               HTTPPath : SeqsUpTo(OpPathBytes, MaxOpPathLen) \cup NamedPaths]
    /\ config \in {[DefaultConfig EXCEPT !.isVirtualStyle = v] : v \in BOOLEAN}
    /\ built = NoBuilt
    /\ pc = "input"
    /\ pathName = <<>>
    /\ encoded = <<>>
    /\ regions = RegionTable
    /\ resourceList = ResourceListSource
    /\ r = [p \in ReqIds |-> NoRequest]
    /\ g = [p \in ReqIds |-> GInit]
    /\ clock = 0
    /\ sent = [p \in ReqIds |-> NoRequest]
    /\ ret = NoRet

\* the caller splits op.HTTPPath and builds the request URL
BuildURL ==
    /\ pc = "input"
    /\ built' = [bucket |-> path2Bucket(op.HTTPPath),
                 object |-> path2Object(op.HTTPPath),
                 query  |-> path2Query(op.HTTPPath),
                 url    |-> getRequestURL(op, config)]
    /\ pc' = "built"
    /\ UNCHANGED <<pathName, encoded, op, config, regions, resourceList, r, g, clock,
                   sent, ret>>

NextURL == BuildURL

SpecURL == InitURL /\ [][NextURL]_vars

\* the part of the path before the first "?"
BeforeQuery(path) ==
    IF IndexByte(path, 63) = 0 THEN path ELSE SubSeq(path, 1, IndexByte(path, 63) - 1)

AfterQuery(path) ==
    IF IndexByte(path, 63) = 0 THEN <<>>
    ELSE SubSeq(path, IndexByte(path, 63) + 1, Len(path))

NoSlashIn(s) == \A i \in 1..Len(s) : s[i] # 47

Parsed(path, bucket, object, query) ==
    op.HTTPPath = path =>
        (built.bucket = bucket /\ built.object = object /\ built.query = query)

\* C2 as stated: "bucket/obj?x=1" gives (bucket, obj, x=1), "bucket" gives
\* (bucket, "", ""), "" gives three empty strings, and for an input without a
\* leading separator the first component is the bucket and the rest up to "?"
\* is the object.
C2_FirstComponentIsBucket ==
    pc = "built" =>
        /\ Parsed(B("bucket/obj?x=1"), B("bucket"), B("obj"), B("x=1"))
        /\ Parsed(B("bucket"), B("bucket"), <<>>, <<>>)
        /\ Parsed(<<>>, <<>>, <<>>, <<>>)
        /\ ~HasPrefix(op.HTTPPath, separator) =>
              /\ NoSlashIn(built.bucket)
              /\ BeforeQuery(op.HTTPPath) \in
                    {built.bucket, built.bucket \o separator \o built.object}

\* C2, amended: "/bucket/obj?x=1" gives (bucket, obj, x=1), "/bucket" gives
\* (bucket, "", ""), "" gives three empty strings; the query is what follows the
\* first "?"; for an input with a leading separator, the component after it is
\* the bucket and the rest up to "?" is the object; what precedes the first
\* separator is dropped ("bucket/obj?x=1" gives bucket "obj" and no object,
\* "bucket" gives no bucket).
C2_SecondComponentIsBucket ==
    pc = "built" =>
        /\ Parsed(B("/bucket/obj?x=1"), B("bucket"), B("obj"), B("x=1"))
        /\ Parsed(B("/bucket"), B("bucket"), <<>>, <<>>)
        /\ Parsed(<<>>, <<>>, <<>>, <<>>)
        /\ Parsed(B("bucket/obj?x=1"), B("obj"), <<>>, B("x=1"))
        /\ Parsed(B("bucket"), <<>>, <<>>, <<>>)
        /\ built.query = AfterQuery(op.HTTPPath)
        /\ NoSlashIn(built.bucket)
        /\ HasPrefix(op.HTTPPath, separator) =>
              /\ BeforeQuery(op.HTTPPath) \in
                    { separator \o built.bucket,
                      separator \o built.bucket \o separator \o built.object }
              /\ (BeforeQuery(op.HTTPPath) = separator \o built.bucket
                    => built.object = <<>>)

C2_Witness ==
    /\ pc = "built"
    /\ op.HTTPPath = B("/bucket/obj?x=1")
    /\ built.bucket = B("bucket")
    /\ built.object = B("obj")
    /\ built.query = B("x=1")

\* C3 as stated: path-style, server http://s3.example.com, raw path
\* "mybucket/my object.txt" gives http://s3.example.com/mybucket/my%20object.txt.
C3_URLWithoutLeadingSeparator ==
    (/\ pc = "built"
     /\ ~config.isVirtualStyle
     /\ op.HTTPServer = ExampleServer
     /\ op.HTTPPath = B("mybucket/my object.txt"))
        => built.url = B("http://s3.example.com/mybucket/my%20object.txt")

\* C3, amended: path-style, server http://s3.example.com, raw path
\* "/mybucket/my object.txt" gives http://s3.example.com/mybucket/my%20object.txt;
\* for a path with a leading separator, a non-empty object and no query, the URL
\* is the server, a separator, the bucket as written, a separator and the object
\* with every byte outside [A-Za-z0-9-_.~/] percent-encoded (a space is %20).
C3_URLWithLeadingSeparator ==
    (pc = "built" /\ ~config.isVirtualStyle) =>
        /\ op.HTTPPath = B("/mybucket/my object.txt")
              => built.url = B("http://s3.example.com/mybucket/my%20object.txt")
        /\ op.HTTPPath = B("mybucket/my object.txt")
              => built.url = B("http://s3.example.com/my object.txt")
        /\ (/\ HasPrefix(op.HTTPPath, separator)
            /\ built.object # <<>>
            /\ built.query = <<>>)
              => /\ HasPrefix(built.url,
                              op.HTTPServer \o separator \o built.bucket \o separator)
                 /\ LET tail == SubSeq(built.url,
                                       Len(op.HTTPServer) + Len(built.bucket) + 3,
                                       Len(built.url))
                    IN  /\ EscapesWellFormed(tail)
                        /\ PercentDecode(tail) = built.object

C3_Witness ==
    /\ pc = "built"
    /\ ~config.isVirtualStyle
    /\ op.HTTPPath = B("/mybucket/my object.txt")
    /\ built.url = B("http://s3.example.com/mybucket/my%20object.txt")

----------------------------------------------------------------------------
(* Specification of one request's life: construction by any of the three
   constructors, Set, SignV2, PreSignV2 and Do, under every combination of empty
   and non-empty credentials *)

MaxClock == 1

\* time passes
Tick ==
    /\ clock < MaxClock
    /\ clock' = clock + 1
    /\ UNCHANGED <<pathName, encoded, op, built, pc, config, regions, resourceList, r, g,
                   sent, ret>>

DoConfigs ==
    {[DefaultConfig EXCEPT !.AccessKeyID = a, !.SecretAccessKey = k] :
        a \in {<<>>, B("AK")}, k \in {<<>>, B("SK")}}

\* the last path makes http.NewRequest fail: "%zz" is no escape
DoOps ==
    [HTTPServer : {ExampleServer}, HTTPMethod : {<<>>, B("GET")},
     HTTPPath : {B("/bucket/obj"), B("/bucket?acl"), B("/b%zz/obj")}]

Bodies == {"nil", "data"}

DoExpires == 60

DoHeaders == {<<B("Date"), B("Mon, 26 Mar 2007 19:36:42 GMT")>>, <<B("content-type"), B("text/plain")>>}

Sequential ==
    /\ pathName = <<>>
    /\ encoded = <<>>
    /\ pc = "input"
    /\ op = DefaultOp
    /\ built = NoBuilt
    /\ resourceList = ResourceListSource
    /\ r = [p \in ReqIds |-> NoRequest]
    /\ g = [p \in ReqIds |-> GInit]
    /\ clock = 0
    /\ sent = [p \in ReqIds |-> NoRequest]
    /\ ret = NoRet

InitDo ==
    /\ config \in DoConfigs
    /\ regions = RegionTable
    /\ Sequential

NextDo ==
    \/ \E o \in DoOps : ConstructPresigned(1, o, DoExpires)
    \/ \E o \in DoOps, b \in Bodies : ConstructUnauthenticated(1, o, b)
    \/ \E o \in DoOps, b \in Bodies : ConstructAuthenticated(1, o, b)
    \/ \E h \in DoHeaders : Set(1, h[1], h[2])
    \/ SignV2(1)
    \/ PreSignV2(1)
    \/ Do(1)
    \/ Tick

SpecDo == InitDo /\ [][NextDo]_vars

\* C4: Do never signs a request built by newUnauthenticatedRequest: whatever the
\* Config, when the request has no Authorization header before Do, the request
\* handed to the transport has none.
C4_UnauthenticatedNeverSigned ==
    [][(/\ Do(1)
        /\ r[1].kind = "unauthenticated"
        /\ AuthKey \notin DOMAIN r[1].Header)
          => AuthKey \notin DOMAIN sent'[1].Header]_vars

\* C8: PreSignV2 with an empty access key ID or an empty secret key returns an
\* empty URL and the missing-credentials error and leaves the request as it was
\* (no Date header added, no query parameter added).
C8_PresignNeedsBothKeys ==
    [][(/\ PreSignV2(1)
        /\ (config.AccessKeyID = <<>> \/ config.SecretAccessKey = <<>>))
          => /\ ret' = [url |-> <<>>, err |-> PresignError]
             /\ r' = r]_vars

\* PreSignV2 has failed on a request without a Date header, the access key ID
\* being set and the secret key empty
C8_Witness ==
    /\ g[1].pc = "PreSignV2"
    /\ config.AccessKeyID # <<>>
    /\ config.SecretAccessKey = <<>>
    /\ ret = [url |-> <<>>, err |-> PresignError]
    /\ KeyDate \notin DOMAIN r[1].Header
    /\ r[1].URL.RawQuery = <<>>

----------------------------------------------------------------------------
(* Specification of the metadata-header section: headers set through Set in any
   order, among them two names that differ only in letter case *)

AmzOp == [HTTPServer |-> ExampleServer, HTTPMethod |-> B("PUT"), HTTPPath |-> B("/bucket/obj")]

\* "x-amz-meta a" holds a space: CanonicalMIMEHeaderKey leaves such a key alone
AmzKeys == {B("x-amz-meta-b"), B("X-Amz-Acl"), B("x-amz-meta a"), B("X-AMZ-META A")}

AmzValues == {B("1"), B("2")}

InitAmz ==
    /\ config = DefaultConfig
    /\ regions = RegionTable
    /\ Sequential

NextAmz ==
    \/ ConstructAuthenticated(1, AmzOp, "nil")
    \/ \E k \in AmzKeys, v \in AmzValues : Set(1, k, v)
    \/ SignV2(1)

SpecAmz == InitAmz /\ [][NextAmz]_vars

\* the names of the lines "name:values\n" of the metadata-header section
AmzNamesOf(amz) ==
    [i \in 1..(Len(SplitN(amz, 10, Len(amz) + 1)) - 1) |->
        Before(SplitN(amz, 10, Len(amz) + 1)[i], 58)]

StrictlyAscending(names) ==
    \A i \in 1..(Len(names) - 1) : StrLess(names[i], names[i + 1])

\* C6: the metadata-header section lists the lower-cased names in ascending
\* order, and headers whose names differ only in letter case make one entry:
\* each lower-cased name appears exactly once.
C6_SortedAndMerged ==
    g[1].pc = "SignV2" =>
        /\ StrictlyAscending(AmzNamesOf(g[1].buf.amz))
        /\ \A k \in AmzKeysOf(r[1]) :
              Cardinality({i \in 1..Len(AmzNamesOf(g[1].buf.amz)) :
                              AmzNamesOf(g[1].buf.amz)[i] = ToLower(k)}) = 1

----------------------------------------------------------------------------
(* Specification of the canonicalized resource: both addressing styles, every
   region, both region tables, two hosts, and every query of at most MaxParams
   parameters out of ParamPool *)

MaxParams == 2

ParamPool ==
    { B("acl"), B("uploads"), B("foo=1"), B("versionId=1"), B("versionId=2"),
      B("response-expires=%41+b"), B("requestPayment"), B("acl=%zz") }

Queries == {JoinAmp(ps) : ps \in SeqsUpTo(ParamPool, MaxParams)}

ResourceServers == {ExampleServer, B("https://mybucket.s3.amazonaws.com")}

ResourceOps ==
    {[HTTPServer |-> sv, HTTPMethod |-> B("GET"),
      HTTPPath |-> B("/mybucket/my obj") \o (IF q = <<>> THEN <<>> ELSE B("?") \o q)] :
        sv \in ResourceServers, q \in Queries}

ResourceRegions == {B("us-east-1"), B("milkyway")}

InitResource ==
    /\ config \in {[DefaultConfig EXCEPT !.isVirtualStyle = v, !.Region = rg] :
                      v \in BOOLEAN, rg \in ResourceRegions}
    /\ regions \in {RegionTable, RegionTableShared}
    /\ Sequential

NextResource ==
    \/ \E o \in ResourceOps : ConstructAuthenticated(1, o, "nil")
    \/ SignV2(1)

SpecResource == InitResource /\ [][NextResource]_vars

\* the fixed sub-resource allow-list, as a set
AllowList == {ResourceListSource[i] : i \in 1..Len(ResourceListSource)}

\* the allow-listed names among the keys of the parsed query, ascending, each
\* with the first value of its parameter
SubresourceSuffix(vals, names) ==
    Concat([i \in 1..Len(names) |->
              (IF i = 1 THEN <<63>> ELSE <<38>>) \o names[i]
                \o (IF vals[names[i]][1] # <<>>
                    THEN <<61>> \o QueryEscape(vals[names[i]][1]) ELSE <<>>)])

ExpectedSuffix(vals) == SubresourceSuffix(vals, SortedKeys(AllowList \cap DOMAIN vals))

QueryGives(rawQuery, suffix) == r[1].URL.RawQuery = rawQuery => g[1].buf.query = suffix

\* C7: the query part of the canonicalized resource holds the allow-listed
\* parameters of the request query and no other, in ascending order of name
\* whatever their order in the request, the first after "?" and the others after
\* "&", each with the first value of its parameter; "uploads&acl" gives
\* "?acl&uploads".
C7_AllowListedSorted ==
    g[1].pc = "SignV2" =>
        /\ g[1].buf.query = ExpectedSuffix(ParseQuery(r[1].URL.RawQuery))
        /\ QueryGives(B("uploads&acl"), B("?acl&uploads"))
        /\ QueryGives(B("foo=1&acl"), B("?acl"))
        /\ QueryGives(B("foo=1"), <<>>)
        /\ QueryGives(B("versionId=2&versionId=1"), B("?versionId=2"))
        /\ QueryGives(B("response-expires=%41+b&requestPayment"),
                      B("?requestPayment&response-expires=A+b"))
        /\ QueryGives(B("acl=%zz&uploads"), B("?uploads"))

C7_Witness ==
    /\ g[1].pc = "SignV2"
    /\ r[1].URL.RawQuery = B("uploads&acl")
    /\ g[1].buf.query = B("?acl&uploads")

\* C10: under virtual-hosted-style addressing the canonicalized resource starts
\* with the Path-Codec encoding of "/" + bucket + path, the bucket being the
\* request host without "." and the host suffix of the configured region,
\* whatever the region and the host.
C10_BucketFromHost ==
    (g[1].pc = "SignV2" /\ config.isVirtualStyle) =>
        \E k \in DOMAIN regions :
            /\ regions[k] = config.Region
            /\ HasSuffix(r[1].URL.Host, <<46>> \o k)
            /\ g[1].buf.path =
                 getURLEncodedPath(
                    separator
                      \o SubSeq(r[1].URL.Host, 1, Len(r[1].URL.Host) - Len(k) - 1)
                      \o r[1].URL.Path)

\* C5: signing a signed request again with the same clock leaves the
\* Authorization header as the first SignV2 set it, and the second
\* getStringToSign writes the bytes the first wrote.
C5_SameAuthorizationTwice ==
    [][(SignV2(1) /\ g[1].pc = "SignV2")
          => /\ r'[1].Header[AuthKey] = r[1].Header[AuthKey]
             /\ g'[1].buf = g[1].buf]_vars

----------------------------------------------------------------------------
(* Specification of concurrent signing: the two requests, built by newRequest
   for the same Config in a process that has signed nothing yet, are signed
   by a goroutine each *)

ConcQueries == {B("response-expires=1&requestPayment"), B("uploads&acl")}

ConcOps ==
    {[HTTPServer |-> ExampleServer, HTTPMethod |-> B("GET"),
      HTTPPath |-> B("/bucket/obj?") \o q] : q \in ConcQueries}

InitConc ==
    /\ pathName = <<>>
    /\ encoded = <<>>
    /\ pc = "input"
    /\ op = DefaultOp
    /\ built = NoBuilt
    /\ config = DefaultConfig
    /\ regions = RegionTable
    /\ resourceList = ResourceListSource
    /\ r \in [ReqIds -> {newRequest(o, DefaultConfig, "nil") : o \in ConcOps}]
    /\ g = [p \in ReqIds |-> [GInit EXCEPT !.pc = "built"]]
    /\ clock = 0
    /\ sent = [p \in ReqIds |-> NoRequest]
    /\ ret = NoRet

NextConc ==
    \E p \in ReqIds :
        \/ SignBegin(p)
        \/ SortStep(p)
        \/ LoopStep(p)
        \/ SignEnd(p)

SpecConc == InitConc /\ [][NextConc]_vars

\* the canonical strings of the request p signed alone
AloneStrings(p) ==
    {BufString(getStringToSign(r[p], config, order, k, SortStrings(ResourceListSource))) :
        order \in RangeOrders(AmzKeysOf(r[p])), k \in MatchingHosts(config, regions)}

\* C1: when two signings of distinct requests sharing a Config run at the same
\* time, no step of one writes what the other reads, the sub-resource
\* allow-list included, so every interleaving gives each request the canonical
\* string it gets when signed alone.
C1_SameStringAsAlone ==
    \A p \in ReqIds : g[p].pc = "SignV2" => BufString(g[p].buf) \in AloneStrings(p)
====
